---- MODULE Spec2Model ----
(***************************************************************************)
(* Irrigation-and-placement design engine: hydraulic engine, clustering    *)
(* engine, agronomic calculator, conflict detector, placement optimizer,   *)
(* irrigation planner.                                                     *)
(*                                                                         *)
(* Fixed-point conventions (TLC integers are 32 bit):                      *)
(*   flow            litres per hour (LPH)                                 *)
(*   diameter        millimetres                                           *)
(*   length          metres                                                *)
(*   velocity        micrometres per second (um/s) and mm/s                *)
(*   friction factor units of 1e-5                                         *)
(*   pressure        microbar (1 bar = 1000000, 1 Pa = 10 microbar)        *)
(*   money           tenths of a dollar (pipes), cents (equipment)         *)
(*   plant spacing   1e-4 cm; coordinates in cm; areas in cm2 (garden      *)
(*                   zones) and 1/100 m2 (irrigation zones)                *)
(*   fitness         units of 1e-4; silhouette score in tenths             *)
(***************************************************************************)
EXTENDS Integers, Sequences, FiniteSets, TLC

VARIABLES
    \* The engines are stateless calculators: a behaviour is one call, whose record holds
    \* the arguments (status "called") and then the outcome (status "returned" / "raised").
    opt,        \* HydraulicEngine.optimize_pipe_diameter
    hyd,        \* HydraulicEngine.calculate_network_hydraulics
    val,        \* HydraulicEngine.validate_system_design
    cache,      \* lru_cache of AgronomicCalculator.calculate_optimal_spacing
    det,        \* ConflictDetector.detect_conflicts
    ga,         \* PlacementOptimizer.optimize_placement_genetic (one run)
    clu,        \* ClusteringEngine.kmeans_clustering / perform_clustering (one call)
    fric,       \* HydraulicEngine.calculate_friction_factor / calculate_pressure_loss_darcy_weisbach
    eq,         \* ClusteringEngine.optimize_equipment_selection
    plan        \* IrrigationPlanner.design_complete_irrigation_system (one call)

hydVars == <<opt, hyd, val>>
agroVars == <<cache, det>>
otherVars == <<fric, eq, plan>>
vars == <<opt, hyd, val, cache, det, ga, clu, fric, eq, plan>>

\* best_diameter = None
NoDiameter == 0

(***************************************************************************)
(* HydraulicEngine: constants                                              *)
(***************************************************************************)
PipeMaterial == {"pvc", "pe", "pex", "copper"}

\* PIPE_PROPERTIES: roughness in units of 1e-4 mm, cost per metre in tenths of a dollar
PIPE_PROPERTIES ==
    [m \in PipeMaterial |->
        CASE m = "pvc"    -> [roughness |-> 15, cost_per_meter |-> 25]
          [] m = "pe"     -> [roughness |-> 70, cost_per_meter |-> 32]
          [] m = "pex"    -> [roughness |-> 70, cost_per_meter |-> 48]
          [] m = "copper" -> [roughness |-> 15, cost_per_meter |-> 120]]

standard_diameters == <<13, 16, 20, 25, 32, 40, 50, 63, 75, 90, 110>>

LaminarLimit == 2300
TransitionalLimit == 4000
\* float('inf') of best_cost / best_pressure_loss
Infinity == 2147483647
\* minimum final pressure for a viable system, and the "critically low" level (microbar)
MinViablePressure == 1000000
CriticalPressure == 500000

DiameterIndex(d) == CHOOSE i \in 1..Len(standard_diameters) : standard_diameters[i] = d

(***************************************************************************)
(* Root of the Colebrook-White equation in (0.001, 0.1), as returned by    *)
(* minimize_scalar(|colebrook(f)|, bounds=(0.001, 0.1)), in units of 1e-5, *)
(* tabulated for the turbulent flows of the model, per roughness class and *)
(* standard diameter (0 where the flow is laminar and the solver is not    *)
(* called).                                                                *)
(***************************************************************************)
ColebrookSmooth ==
    90 :> <<4651, 0, 0, 0, 0, 0, 0, 0, 0, 0, 0>>
    @@ 600 :> <<2747, 2889, 3055, 3239, 3462, 3685, 3929, 4208, 4438, 4699, 0>>
    @@ 1000 :> <<2435, 2550, 2686, 2836, 3019, 3200, 3399, 3625, 3810, 4018, 4267>>
    @@ 3000 :> <<1933, 2004, 2091, 2189, 2309, 2429, 2560, 2708, 2829, 2964, 3123>>

ColebrookRough ==
    90 :> <<4686, 0, 0, 0, 0, 0, 0, 0, 0, 0, 0>>
    @@ 600 :> <<2828, 2948, 3098, 3270, 3484, 3701, 3941, 4217, 4445, 4704, 0>>
    @@ 1000 :> <<2538, 2626, 2741, 2876, 3046, 3220, 3413, 3635, 3818, 4024, 4272>>
    @@ 3000 :> <<2106, 2135, 2187, 2258, 2357, 2464, 2585, 2726, 2842, 2974, 3131>>

ColebrookRoot(flow, d, roughness) ==
    IF roughness = 15 THEN ColebrookSmooth[flow][DiameterIndex(d)]
                      ELSE ColebrookRough[flow][DiameterIndex(d)]

(***************************************************************************)
(* Swamee-Jain estimate f_guess = 0.25 / log10(rr/3.7 + 5.74/Re^0.9)^2 in  *)
(* units of 1e-5, tabulated like the Colebrook-White root.                 *)
(***************************************************************************)
SwameeJainSmooth ==
    90 :> <<4781, 0, 0, 0, 0, 0, 0, 0, 0, 0, 0>>
    @@ 600 :> <<2747, 2892, 3064, 3255, 3490, 3727, 3989, 4292, 4544, 4833, 0>>
    @@ 1000 :> <<2429, 2545, 2683, 2837, 3026, 3215, 3423, 3662, 3860, 4085, 4356>>
    @@ 3000 :> <<1927, 1996, 2082, 2179, 2300, 2421, 2554, 2705, 2828, 2968, 3134>>

SwameeJainRough ==
    90 :> <<4821, 0, 0, 0, 0, 0, 0, 0, 0, 0, 0>>
    @@ 600 :> <<2838, 2960, 3113, 3291, 3515, 3745, 4002, 4301, 4552, 4839, 0>>
    @@ 1000 :> <<2544, 2631, 2746, 2882, 3057, 3237, 3440, 3674, 3869, 4092, 4362>>
    @@ 3000 :> <<2114, 2140, 2188, 2257, 2354, 2460, 2582, 2725, 2844, 2979, 3143>>

SwameeJain(flow, d, roughness) ==
    IF roughness = 15 THEN SwameeJainSmooth[flow][DiameterIndex(d)]
                      ELSE SwameeJainRough[flow][DiameterIndex(d)]

(***************************************************************************)
(* HydraulicEngine: pure calculations                                      *)
(***************************************************************************)
\* velocity_ms = flow_rate_m3s / area_m2, in um/s: flow * 4 / (3.6 * pi * d^2)
VelocityUm(flow, d) == (flow * 353678) \div (d * d)

\* calculate_reynolds_number: WATER_DENSITY * v * d / WATER_VISCOSITY = 0.9962 * v[mm/s] * d[mm]
calculate_reynolds_number(flow, d) == (((VelocityUm(flow, d) * d) \div 1000) * 9962) \div 10000

determine_flow_regime(re) ==
    IF re < LaminarLimit THEN "laminar"
    ELSE IF re < TransitionalLimit THEN "transitional"
    ELSE "turbulent"

\* What minimize_scalar does in the try block: it returns the root ("converged"), it
\* returns a result whose success flag is False and whose x is some point x of the search
\* interval ("failed"), or it raises ("raised").
Converged == [kind |-> "converged", x |-> 0]

\* calculate_friction_factor: 64/Re below 2300 (ZeroDivisionError at Re = 0); else result.x
\* of the solver, whatever its success flag, and f_guess if the solver raised
calculate_friction_factor_with(solver, re, flow, d, roughness) ==
    IF re < LaminarLimit
    THEN IF re = 0 THEN [err |-> TRUE, f |-> 0]
                   ELSE [err |-> FALSE, f |-> 6400000 \div re]
    ELSE CASE solver.kind = "raised" -> [err |-> FALSE, f |-> SwameeJain(flow, d, roughness)]
           [] solver.kind = "failed" -> [err |-> FALSE, f |-> solver.x]
           [] OTHER -> [err |-> FALSE, f |-> ColebrookRoot(flow, d, roughness)]

\* calculate_friction_factor as the other computations use it: the refinement converges
calculate_friction_factor(re, flow, d, roughness) ==
    calculate_friction_factor_with(Converged, re, flow, d, roughness)

DarcyWeisbachPa_mutant(f, vmm, length, d) ==
    ((((((f * vmm) \div 100) \div 10) * 4991) \div 1000) * length) \div d

\* f * (L/D) * (rho v^2 / 2) in Pa
DarcyWeisbachPa(f, vmm, length, d) ==
    (((((((f * vmm) \div 100) * vmm) \div 10000) * 4991) \div 1000) * length) \div d

\* calculate_pressure_loss_darcy_weisbach: (pressure_loss, velocity, reynolds, friction factor)
calculate_pressure_loss_darcy_weisbach(flow, d, length, roughness) ==
    LET v  == VelocityUm(flow, d)
        re == calculate_reynolds_number(flow, d)
        ff == calculate_friction_factor(re, flow, d, roughness)
    IN  IF ff.err
        THEN [err |-> TRUE, loss |-> 0, velocity |-> v, reynolds |-> re, friction |-> 0]
        ELSE [err |-> FALSE,
              loss |-> 10 * DarcyWeisbachPa(ff.f, v \div 1000, length, d),
              velocity |-> v, reynolds |-> re, friction |-> ff.f]

\* minor losses: estimated 10% of the major loss
MinorLosses(major) == major \div 10

TotalLoss(major) == major + MinorLosses(major)

(***************************************************************************)
(* optimize_pipe_diameter                                                  *)
(***************************************************************************)
\* "if total_pressure_loss <= max_pressure_loss_bar"
LossAcceptable(total, max_loss) == total <= max_loss

CostImproves_mutant(total_cost, best_cost) == total_cost <= best_cost

\* "if total_cost < best_cost"
CostImproves(total_cost, best_cost) == total_cost < best_cost

\* one iteration of "for diameter_mm in standard_diameters"
ScanStep(best, i, flow, length, material, max_loss) ==
    LET d     == standard_diameters[i]
        r     == calculate_pressure_loss_darcy_weisbach(flow, d, length,
                                                        PIPE_PROPERTIES[material].roughness)
        total == TotalLoss(r.loss)
        cost  == length * PIPE_PROPERTIES[material].cost_per_meter
    IN  IF r.err THEN best                              \* except: ... continue
        ELSE IF LossAcceptable(total, max_loss) /\ CostImproves(cost, best.cost)
             THEN [diameter |-> d, cost |-> cost, loss |-> total]
             ELSE best

RECURSIVE Scan(_, _, _, _, _, _)
Scan(best, i, flow, length, material, max_loss) ==
    IF i > Len(standard_diameters) THEN best
    ELSE Scan(ScanStep(best, i, flow, length, material, max_loss),
              i + 1, flow, length, material, max_loss)

optimize_pipe_diameter(flow, length, material, max_loss) ==
    LET best == Scan([diameter |-> NoDiameter, cost |-> Infinity, loss |-> Infinity],
                     1, flow, length, material, max_loss)
    IN  IF best.diameter = NoDiameter
        THEN [status |-> "raised", diameter |-> NoDiameter, cost |-> Infinity, loss |-> Infinity]
        ELSE [status |-> "returned",
              diameter |-> best.diameter, cost |-> best.cost, loss |-> best.loss]

(***************************************************************************)
(* calculate_network_hydraulics                                            *)
(***************************************************************************)
\* np.mean of an empty list
NaN == -1

Warning(kind, ref) == [kind |-> kind, ref |-> ref]

RECURSIVE SumFlows(_)
\* sum(zone.required_flow_lph for zone in zones)
SumFlows(zones) ==
    IF zones = <<>> THEN 0 ELSE Head(zones).required_flow + SumFlows(Tail(zones))

FlowExceedsSource_mutant(total_flow, source_flow) == total_flow >= source_flow

\* "if total_flow_lph > source_flow_lph"
FlowExceedsSource(total_flow, source_flow) == total_flow > source_flow

\* per-pipe result of the loop body (lines 296-317)
PipeResult(pipe) ==
    LET r == calculate_pressure_loss_darcy_weisbach(pipe.flow, pipe.diameter, pipe.length,
                                                    PIPE_PROPERTIES[pipe.material].roughness)
    IN  [err |-> r.err,
         pressure_loss |-> TotalLoss(r.loss),
         velocity |-> r.velocity,
         reynolds |-> r.reynolds,
         friction |-> r.friction,
         flow_regime |-> determine_flow_regime(r.reynolds)]

PipeResults(pipes) == [i \in 1..Len(pipes) |-> PipeResult(pipes[i])]

RECURSIVE SumField(_, _)
SumField(results, field) ==
    IF results = <<>> THEN 0 ELSE Head(results)[field] + SumField(Tail(results), field)

Mean(results, field) ==
    IF results = <<>> THEN NaN ELSE SumField(results, field) \div Len(results)

SystemViable_mutant(final_pressure) == final_pressure > MinViablePressure

\* "is_system_viable = final_pressure >= 1.0"
SystemViable(final_pressure) == final_pressure >= MinViablePressure

calculate_network_hydraulics(zones, pipes, source_pressure, source_flow) ==
    LET total_flow == SumFlows(zones)
        w0 == IF FlowExceedsSource(total_flow, source_flow)
              THEN <<Warning("flow_exceeds_source_capacity", total_flow)>> ELSE <<>>
        results == PipeResults(pipes)
        total_pressure_loss == SumField(results, "pressure_loss")
        final_pressure == source_pressure - total_pressure_loss
        w1 == IF final_pressure < MinViablePressure
              THEN Append(w0, Warning("final_pressure_below_minimum", final_pressure)) ELSE w0
        w2 == IF final_pressure < CriticalPressure
              THEN Append(w1, Warning("pressure_critically_low", 0)) ELSE w1
    IN  IF \E i \in 1..Len(results) : results[i].err
        THEN [status |-> "raised"]                \* ZeroDivisionError propagates
        ELSE [status |-> "returned",
              total_flow |-> total_flow,
              total_pressure_loss |-> total_pressure_loss,
              final_pressure |-> final_pressure,
              velocity |-> Mean(results, "velocity"),
              reynolds |-> Mean(results, "reynolds"),
              friction |-> Mean(results, "friction"),
              warnings |-> w2,
              is_system_viable |-> SystemViable(final_pressure)]

(***************************************************************************)
(* validate_system_design                                                  *)
(***************************************************************************)
\* recommended velocity bounds, um/s
MaxVelocity == 2000000
MinVelocity == 300000

ZonePressureWarnings(zones) ==
    SelectSeq([i \in 1..Len(zones) |->
                  Warning(IF zones[i].operating_pressure < MinViablePressure
                          THEN "zone_pressure_below_minimum" ELSE "", i)],
              LAMBDA w : w.kind # "")

PipeVelocityWarnings(pipes) ==
    SelectSeq([i \in 1..Len(pipes) |->
                  LET v == VelocityUm(pipes[i].flow, pipes[i].diameter)
                  IN  Warning(IF v > MaxVelocity THEN "velocity_above_maximum"
                              ELSE IF v < MinVelocity THEN "velocity_below_minimum"
                              ELSE "", i)],
              LAMBDA w : w.kind # "")

\* pipe_connections: endpoint -> number of entries of its connection list
Endpoints(pipes) == {pipes[i].start : i \in 1..Len(pipes)} \cup {pipes[i].end : i \in 1..Len(pipes)}

ConnectionCount(pipes, point) ==
    Cardinality({i \in 1..Len(pipes) : pipes[i].start = point})
    + Cardinality({i \in 1..Len(pipes) : pipes[i].end = point})

DeadEnds_mutant(pipes) ==
    {pt \in Endpoints(pipes) :
        Cardinality({i \in 1..Len(pipes) : pipes[i].start = pt \/ pipes[i].end = pt}) = 1}

\* "if len(connections) == 1"
DeadEnds(pipes) == {pt \in Endpoints(pipes) : ConnectionCount(pipes, pt) = 1}

validate_system_design(zones, pipes, source_pressure, source_flow) ==
    LET total_required_flow == SumFlows(zones)
        exceeds == FlowExceedsSource(total_required_flow, source_flow)
        errors == IF exceeds
                  THEN <<Warning("flow_exceeds_source_capacity", total_required_flow)>> ELSE <<>>
        dead == DeadEnds(pipes)
        warnings == ZonePressureWarnings(zones) \o PipeVelocityWarnings(pipes)
                    \o (IF dead # {} THEN <<Warning("dead_ends", Cardinality(dead))>> ELSE <<>>)
        rec1 == IF warnings # <<>> THEN <<"review_warnings">> ELSE <<>>
        rec2 == IF 10 * total_required_flow < 8 * source_flow
                THEN <<"system_oversized">> ELSE <<>>
    IN  [status |-> "returned",
         is_valid |-> ~exceeds,
         warnings |-> warnings,
         errors |-> errors,
         recommendations |-> rec1 \o rec2]

(***************************************************************************)
(* AgronomicCalculator                                                     *)
(*   spacing_min / spacing_optimal   centimetres                           *)
(*   soil_quality                    tenths (0..10 for 0.0..1.0)           *)
(*   calculate_optimal_spacing       units of 1e-4 cm (SpacingScale)       *)
(*   coordinates                     centimetres                           *)
(*   zone area                       square centimetres                    *)
(***************************************************************************)
SpacingScale == 10000

\* soil_factor = 0.8 + soil_quality * 0.4, times 100
SoilFactor(soil_quality) == 80 + 4 * soil_quality

\* water_factor, times 10
WaterFactor(water_need) ==
    CASE water_need = "low" -> 10
      [] water_need = "medium" -> 11
      [] water_need = "high" -> 12
      [] OTHER -> 10

\* sun_factor, times 10
SunFactor(sun_exposure) ==
    CASE sun_exposure = "full_sun" -> 11
      [] sun_exposure = "partial_sun" -> 10
      [] sun_exposure = "shade" -> 9
      [] OTHER -> 10

Max(a, b) == IF a >= b THEN a ELSE b

EnsureMinimum_mutant(optimal_spacing, spacing_min) == optimal_spacing

\* "return max(optimal_spacing, plant_specs.spacing_min)"
EnsureMinimum(optimal_spacing, spacing_min) == Max(optimal_spacing, spacing_min * SpacingScale)

calculate_optimal_spacing(plant_specs, soil_quality) ==
    LET base_spacing == plant_specs.spacing_optimal
        optimal_spacing == base_spacing * SoilFactor(soil_quality)
                           * WaterFactor(plant_specs.water_need)
                           * SunFactor(plant_specs.sun_exposure)
    IN  EnsureMinimum(optimal_spacing, plant_specs.spacing_min)

\* @lru_cache(maxsize=1000): the cache after a call with this key (a hit leaves it alone)
CacheAfter(c, plant_specs, soil_quality) ==
    IF \E e \in c : e.plant = plant_specs /\ e.soil_quality = soil_quality
    THEN c
    ELSE c \cup {[plant |-> plant_specs, soil_quality |-> soil_quality,
                  value |-> calculate_optimal_spacing(plant_specs, soil_quality)]}

\* squared distance between two placements, cm^2
Dist2(p1, p2) == (p1.x - p2.x) * (p1.x - p2.x) + (p1.y - p2.y) * (p1.y - p2.y)

\* _is_in_zone: distance <= sqrt(zone.area / pi), with pi = 355/113
is_in_zone(placement, zone) ==
    LET dx == placement.x - zone.coordinates[1]
        dy == placement.y - zone.coordinates[2]
    IN  (dx * dx + dy * dy) * 355 <= zone.area * 113

(***************************************************************************)
(* ConflictDetector.detect_conflicts                                       *)
(***************************************************************************)
\* soil quality of the spacing check (0.7)
DetectSoilQuality == 7

\* min_spacing = calculate_optimal_spacing(placement1.plant_specs, 0.7) / 100, in 1e-2 cm
MinSpacing(plant_specs) == calculate_optimal_spacing(plant_specs, DetectSoilQuality) \div 100

SpacingViolated_mutant(d2, min_spacing) == d2 * 10000 < 4 * min_spacing * min_spacing

\* "if distance < min_spacing" (both sides squared; distances in 1e-2 cm)
SpacingViolated(d2, min_spacing) == d2 * 10000 < min_spacing * min_spacing

\* "distance < min_spacing * 0.5"
SpacingSeverity(d2, min_spacing) ==
    IF 4 * d2 * 10000 < min_spacing * min_spacing THEN "high" ELSE "medium"

\* "placement2.name in placement1.incompatible_plants or placement1.name in placement2...."
Incompatible(s1, s2) ==
    s2.name \in s1.incompatible_plants \/ s1.name \in s2.incompatible_plants

WithinCompatibilityRange_mutant(d2) == d2 < 100 * 100

\* "if distance < 2.0" (metres; d2 in cm^2)
WithinCompatibilityRange(d2) == d2 < 200 * 200

\* ordered pairs (i, j), i < j, in the order of the nested loops
PairsOf(n) ==
    LET RECURSIVE Build(_, _)
        Build(i, j) ==
            IF i >= n THEN <<>>
            ELSE IF j > n THEN Build(i + 1, i + 2)
            ELSE <<<<i, j>>>> \o Build(i, j + 1)
    IN  Build(1, 2)

Entry(kind, pr) == [kind |-> kind, plant1 |-> pr[1], plant2 |-> pr[2]]

spacing_violations(placements) ==
    LET prs == PairsOf(Len(placements))
        all == [k \in 1..Len(prs) |->
                  LET p1 == placements[prs[k][1]]
                      p2 == placements[prs[k][2]]
                      ms == MinSpacing(p1.plant_specs)
                  IN  IF SpacingViolated(Dist2(p1, p2), ms)
                      THEN Entry(SpacingSeverity(Dist2(p1, p2), ms), prs[k])
                      ELSE Entry("", prs[k])]
    IN  SelectSeq(all, LAMBDA e : e.kind # "")

compatibility_violations(placements) ==
    LET prs == PairsOf(Len(placements))
        all == [k \in 1..Len(prs) |->
                  LET p1 == placements[prs[k][1]]
                      p2 == placements[prs[k][2]]
                  IN  IF Incompatible(p1.plant_specs, p2.plant_specs)
                         /\ WithinCompatibilityRange(Dist2(p1, p2))
                      THEN Entry("high", prs[k])
                      ELSE Entry("", prs[k])]
    IN  SelectSeq(all, LAMBDA e : e.kind # "")

InValidZone_mutant(placement, garden_zones) ==
    \A z \in 1..Len(garden_zones) : is_in_zone(placement, garden_zones[z])

\* in_valid_zone = any(_is_in_zone(placement, zone) for zone in garden_zones)
InValidZone(placement, garden_zones) ==
    \E z \in 1..Len(garden_zones) : is_in_zone(placement, garden_zones[z])

\* the zone check: the indices of the placements appended to zone_violations, in order
zone_violations(placements, garden_zones) ==
    SelectSeq([i \in 1..Len(placements) |->
                  IF InValidZone(placements[i], garden_zones) THEN 0 ELSE i],
              LAMBDA i : i # 0)

\* _detect_water_conflicts: for placement i, the later high-water placements within 1 m
HighWaterNeighbours(placements, i) ==
    SelectSeq([k \in 1..(Len(placements) - i) |->
                  LET p1 == placements[i]
                      p2 == placements[i + k]
                  IN  IF Dist2(p1, p2) < 100 * 100
                         /\ p1.plant_specs.water_need = "high"
                         /\ p2.plant_specs.water_need = "high"
                      THEN i + k ELSE 0],
              LAMBDA j : j # 0)

detect_water_conflicts(placements) ==
    SelectSeq([i \in 1..Len(placements) |->
                  IF Len(HighWaterNeighbours(placements, i)) > 2
                  THEN <<i>> \o HighWaterNeighbours(placements, i) ELSE <<>>],
              LAMBDA c : c # <<>>)

detect_conflicts(placements, garden_zones) ==
    [status |-> "returned",
     spacing_violations |-> spacing_violations(placements),
     compatibility_violations |-> compatibility_violations(placements),
     zone_violations |-> zone_violations(placements, garden_zones),
     resource_conflicts |-> detect_water_conflicts(placements)]

\* the spacing cache after detect_conflicts: one lookup per pair, for placement1
RECURSIVE CacheAfterPairs(_, _, _)
CacheAfterPairs(c, placements, prs) ==
    IF prs = <<>> THEN c
    ELSE CacheAfterPairs(CacheAfter(c, placements[Head(prs)[1]].plant_specs, DetectSoilQuality),
                         placements, Tail(prs))

(***************************************************************************)
(* Inputs of the hydraulic model                                           *)
(***************************************************************************)
Flows == {0, 40, 600, 1000, 3000}
Lengths == {20, 50}
\* max_pressure_loss_bar, in microbar
MaxLosses == {0, 1000, 118025, 200000, 300000, 500000}

MaxZones == 2
MaxPipes == 2

ZoneChoices ==
    { [required_flow |-> 100, operating_pressure |-> 1500000],
      [required_flow |-> 300, operating_pressure |-> 1500000],
      [required_flow |-> 600, operating_pressure |-> 800000] }

PipeChoices ==
    { [material |-> "pvc", diameter |-> 20,  length |-> 50, flow |-> 1000, start |-> <<0, 0>>,  end |-> <<50, 0>>],
      [material |-> "pvc", diameter |-> 13,  length |-> 20, flow |-> 600,  start |-> <<50, 0>>, end |-> <<70, 0>>],
      [material |-> "pe",  diameter |-> 13,  length |-> 50, flow |-> 1000, start |-> <<50, 0>>, end |-> <<70, 10>>],
      [material |-> "pvc", diameter |-> 110, length |-> 20, flow |-> 40,   start |-> <<70, 0>>, end |-> <<50, 0>>],
      [material |-> "pex", diameter |-> 25,  length |-> 20, flow |-> 0,    start |-> <<0, 0>>,  end |-> <<0, 0>>] }

SourcePressures == {1000000, 1500000, 2500000}
SourceFlows == {500, 600, 1000}

SeqsUpTo(S, n) == UNION {[1..k -> S] : k \in 0..n}

Idle == [status |-> "idle"]

\* arguments of a call (everything of the record but its outcome)
Args(call) == [f \in (DOMAIN call) \ {"status"} |-> call[f]]

OptCalls ==
    { [status |-> "called", flow |-> flow, length |-> length, material |-> material,
       max_loss |-> max_loss] :
      flow \in Flows, length \in Lengths, material \in PipeMaterial, max_loss \in MaxLosses }

\* a call of calculate_network_hydraulics or validate_system_design
NetworkCall(call) ==
    \E zones \in SeqsUpTo(ZoneChoices, MaxZones), pipes \in SeqsUpTo(PipeChoices, MaxPipes),
       sp \in SourcePressures, sf \in SourceFlows :
        call = [status |-> "called", zones |-> zones, pipes |-> pipes,
                source_pressure |-> sp, source_flow |-> sf]

HydIdle == opt = Idle /\ hyd = Idle /\ val = Idle

AgroIdle == cache = {} /\ det = Idle

GaIdle == ga = Idle

CluIdle == clu = Idle

OtherIdle == fric = Idle /\ eq = Idle /\ plan = Idle

HydInit ==
    /\ \/ opt \in OptCalls /\ hyd = Idle /\ val = Idle
       \/ opt = Idle /\ NetworkCall(hyd) /\ val = Idle
       \/ opt = Idle /\ hyd = Idle /\ NetworkCall(val)
    /\ AgroIdle /\ GaIdle /\ CluIdle /\ OtherIdle

OptimizePipeDiameter ==
    /\ opt.status = "called"
    /\ opt' = optimize_pipe_diameter(opt.flow, opt.length, opt.material, opt.max_loss)
              @@ Args(opt)
    /\ UNCHANGED <<hyd, val, agroVars, ga, clu, otherVars>>

CalculateNetworkHydraulics ==
    /\ hyd.status = "called"
    /\ hyd' = calculate_network_hydraulics(hyd.zones, hyd.pipes, hyd.source_pressure,
                                           hyd.source_flow) @@ Args(hyd)
    /\ UNCHANGED <<opt, val, agroVars, ga, clu, otherVars>>

ValidateSystemDesign ==
    /\ val.status = "called"
    /\ val' = validate_system_design(val.zones, val.pipes, val.source_pressure,
                                     val.source_flow) @@ Args(val)
    /\ UNCHANGED <<opt, hyd, agroVars, ga, clu, otherVars>>

(***************************************************************************)
(* Properties of the hydraulic engine                                      *)
(***************************************************************************)
StandardDiameterSet == {standard_diameters[i] : i \in 1..Len(standard_diameters)}

\* total loss (major + 10% minor) of one candidate diameter, for a flow that moves
CandidateLoss(flow, d, length, material) ==
    LET major == calculate_pressure_loss_darcy_weisbach(
                     flow, d, length, PIPE_PROPERTIES[material].roughness).loss
    IN  major + major \div 10

\* total loss of a candidate as the statement of C2 takes it: still water loses no pressure
StatedLoss(flow, d, length, material) ==
    IF flow = 0 THEN 0 ELSE CandidateLoss(flow, d, length, material)

\* C1: whenever optimize_pipe_diameter returns, the diameter is a standard diameter, its
\* total loss (major + 10% minor) is <= max_loss_bar, and no smaller standard diameter
\* has a total loss <= max_loss_bar.
C1_SmallestFeasibleDiameter ==
    opt.status = "returned" =>
        /\ opt.diameter \in StandardDiameterSet
        /\ CandidateLoss(opt.flow, opt.diameter, opt.length, opt.material) <= opt.max_loss
        /\ opt.loss = CandidateLoss(opt.flow, opt.diameter, opt.length, opt.material)
        /\ \A d \in StandardDiameterSet :
              d < opt.diameter =>
                  CandidateLoss(opt.flow, d, opt.length, opt.material) > opt.max_loss

\* C1 witness: a call returned a diameter above the smallest one (smaller ones were rejected)
C1_Witness ==
    /\ opt.status = "returned"
    /\ opt.flow = 1000 /\ opt.length = 50 /\ opt.material = "pvc" /\ opt.max_loss = 300000
    /\ opt.diameter = 20

\* C2 (as stated): optimize_pipe_diameter fails if and only if no standard diameter has a
\* total loss <= max_loss_bar, a flow of 0 LPH included (its loss is 0).
C2_FailsIffNoneQualifies ==
    opt.status \in {"returned", "raised"} =>
        ( opt.status = "raised"
          <=> \A d \in StandardDiameterSet :
                  StatedLoss(opt.flow, d, opt.length, opt.material) > opt.max_loss )

\* partial sums of the per-pipe total losses, written out from the pipe list
RECURSIVE NetworkLoss(_)
NetworkLoss(pipes) ==
    IF pipes = <<>> THEN 0
    ELSE CandidateLoss(Head(pipes).flow, Head(pipes).diameter, Head(pipes).length,
                       Head(pipes).material) + NetworkLoss(Tail(pipes))

HasWarning(ws, kind) == \E i \in 1..Len(ws) : ws[i].kind = kind

\* C3: final_pressure = source_pressure - sum over the pipes of (major + 10% minor) and
\* is_system_viable <=> final_pressure >= 1.0 bar, whatever the zones' flow and source_flow.
C3_ViabilityFromPressureOnly ==
    hyd.status = "returned" =>
        /\ hyd.final_pressure = hyd.source_pressure - NetworkLoss(hyd.pipes)
        /\ hyd.is_system_viable <=> (hyd.final_pressure >= 1000000)
        /\ hyd.is_system_viable <=> (hyd.source_pressure - NetworkLoss(hyd.pipes) >= 1000000)

\* C3 witness: the zones need more flow than the source gives, the pipes lose pressure and
\* the system is viable all the same
C3_Witness ==
    /\ hyd.status = "returned"
    /\ hyd.pipes # <<>>
    /\ SumFlows(hyd.zones) > hyd.source_flow
    /\ hyd.is_system_viable

PipesAt(pipes, point) ==
    {i \in 1..Len(pipes) : pipes[i].start = point \/ pipes[i].end = point}

\* the pipe ends attached to a point: both ends of a pipe that starts and ends there
PipeEndsAt(pipes, point) ==
    {e \in (1..Len(pipes)) \X {"start", "end"} :
        (IF e[2] = "start" THEN pipes[e[1]].start ELSE pipes[e[1]].end) = point}

\* the dead-end warning is in the report exactly when points is not empty, and it
\* reports the number of points
DeadEndWarningFor(report, points) ==
    /\ HasWarning(report.warnings, "dead_ends") <=> points # {}
    /\ \A w \in 1..Len(report.warnings) :
          report.warnings[w].kind = "dead_ends" =>
              report.warnings[w].ref = Cardinality(points)

\* C25 (as stated): validate_system_design adds the dead-end warning iff some endpoint of
\* the pipe list is an endpoint of exactly one pipe, and the count it reports is the
\* number of such endpoints.
C25_DeadEndsByIncidentPipes ==
    val.status = "returned" =>
        DeadEndWarningFor(val, {pt \in Endpoints(val.pipes) :
                                   Cardinality(PipesAt(val.pipes, pt)) = 1})

\* C25 (amended): validate_system_design adds the dead-end warning iff some endpoint of the
\* pipe list has exactly one pipe end attached to it, a pipe that starts and ends at the
\* same point counting twice there, and the count it reports is the number of such
\* endpoints.
C25_DeadEndsByPipeEnds ==
    val.status = "returned" =>
        DeadEndWarningFor(val, {pt \in Endpoints(val.pipes) :
                                   Cardinality(PipeEndsAt(val.pipes, pt)) = 1})

\* C25 witness: a main line and a lateral in a row are reported with their two far ends
\* as dead ends
C25_Witness ==
    /\ val.status = "returned"
    /\ Len(val.pipes) = 2
    /\ val.pipes[1].end = val.pipes[2].start
    /\ \E w \in 1..Len(val.warnings) :
          val.warnings[w].kind = "dead_ends" /\ val.warnings[w].ref = 2

SpecHydraulic ==
    HydInit /\ [][OptimizePipeDiameter \/ CalculateNetworkHydraulics \/ ValidateSystemDesign]_vars

(***************************************************************************)
(* One call of calculate_friction_factor or of                             *)
(* calculate_pressure_loss_darcy_weisbach                                  *)
(***************************************************************************)
\* flows on both sides of Re = 2300 for the 13 mm pipe (80 and 90 LPH) and for the others
FrictionFlows == {0, 40, 80, 90, 600, 1000, 3000}

\* roughness of the smooth (pvc, copper) and of the rough (pe, pex) materials
Roughnesses == {PIPE_PROPERTIES[m].roughness : m \in PipeMaterial}

\* the ends of the search interval (0.001, 0.1) stand for the x of a failed search
SolverOutcomes ==
    {Converged, [kind |-> "raised", x |-> 0]}
    \cup {[kind |-> "failed", x |-> x] : x \in {100, 10000}}

FrictionCall(call) ==
    \/ \E flow \in FrictionFlows, d \in StandardDiameterSet, roughness \in Roughnesses :
           call = [status |-> "called", fn |-> "calculate_friction_factor",
                   reynolds_number |-> calculate_reynolds_number(flow, d),
                   flow |-> flow, diameter |-> d, roughness |-> roughness]
    \/ \E flow \in FrictionFlows, d \in StandardDiameterSet, roughness \in Roughnesses,
          length \in Lengths :
           \* the fixed-point loss has a resolution of 10 microbar: it tells the flows of
           \* the model apart from a velocity of 20 mm/s on
           /\ flow = 0 \/ VelocityUm(flow, d) \div 1000 >= 20
           /\ call = [status |-> "called", fn |-> "calculate_pressure_loss_darcy_weisbach",
                      flow |-> flow, diameter |-> d, roughness |-> roughness,
                      length |-> length]

CalculateFrictionFactor ==
    /\ fric.status = "called"
    /\ fric.fn = "calculate_friction_factor"
    /\ \E solver \in SolverOutcomes :
          LET r == calculate_friction_factor_with(solver, fric.reynolds_number, fric.flow,
                                                  fric.diameter, fric.roughness)
          IN  fric' = [status |-> IF r.err THEN "raised" ELSE "returned",
                       friction_factor |-> r.f,
                       solver |-> IF fric.reynolds_number < LaminarLimit
                                  THEN "not_called" ELSE solver.kind]
                      @@ Args(fric)
    /\ UNCHANGED <<hydVars, agroVars, ga, clu, eq, plan>>

CalculatePressureLossDarcyWeisbach ==
    /\ fric.status = "called"
    /\ fric.fn = "calculate_pressure_loss_darcy_weisbach"
    /\ LET r == calculate_pressure_loss_darcy_weisbach(fric.flow, fric.diameter, fric.length,
                                                       fric.roughness)
       IN  fric' = [status |-> IF r.err THEN "raised" ELSE "returned",
                    pressure_loss |-> r.loss, velocity |-> r.velocity,
                    reynolds_number |-> r.reynolds, friction_factor |-> r.friction]
                   @@ Args(fric)
    /\ UNCHANGED <<hydVars, agroVars, ga, clu, eq, plan>>

FrictionInit ==
    HydIdle /\ AgroIdle /\ GaIdle /\ CluIdle /\ FrictionCall(fric) /\ eq = Idle /\ plan = Idle

SpecFriction ==
    FrictionInit /\ [][CalculateFrictionFactor \/ CalculatePressureLossDarcyWeisbach]_vars

(***************************************************************************)
(* Properties of the friction factor and of the Darcy-Weisbach loss        *)
(***************************************************************************)
FrictionReturned(fn) == fric.status \in {"returned", "raised"} /\ fric.fn = fn

\* C18 (as stated): for every Reynolds number below 2300 calculate_friction_factor returns
\* exactly 64/Re and does not raise.
C18_LaminarFrictionFactor ==
    (FrictionReturned("calculate_friction_factor") /\ fric.reynolds_number < 2300) =>
        /\ fric.status = "returned"
        /\ fric.friction_factor * fric.reynolds_number <= 6400000
        /\ (fric.friction_factor + 1) * fric.reynolds_number > 6400000

\* C19 (as stated): when the Colebrook-White refinement does not converge, the solver
\* reporting failure or raising, calculate_friction_factor returns the Swamee-Jain estimate
\* and not the solver's unconverged value.
C19_SwameeJainFallback ==
    (FrictionReturned("calculate_friction_factor") /\ fric.solver \in {"failed", "raised"}) =>
        /\ fric.status = "returned"
        /\ fric.friction_factor = SwameeJain(fric.flow, fric.diameter, fric.roughness)

\* C20: for a fixed diameter, length and roughness the pressure loss returned by
\* calculate_pressure_loss_darcy_weisbach is strictly increasing in the flow rate, also
\* from a laminar flow to a flow at or above Re = 2300: the loss returned for a flow is
\* below the loss the function returns for every larger flow.
C20_LossIncreasingInFlow ==
    (FrictionReturned("calculate_pressure_loss_darcy_weisbach") /\ fric.status = "returned") =>
        \A flow2 \in FrictionFlows :
            flow2 > fric.flow =>
                LET r2 == calculate_pressure_loss_darcy_weisbach(flow2, fric.diameter,
                                                                 fric.length, fric.roughness)
                IN  ~r2.err /\ fric.pressure_loss < r2.loss

\* C20 witness: the 13 mm pipe at 80 LPH, a laminar flow (Re 2167) whose next larger flow,
\* 90 LPH, is past the switch (Re 2438)
C20_Witness ==
    /\ FrictionReturned("calculate_pressure_loss_darcy_weisbach")
    /\ fric.status = "returned"
    /\ fric.diameter = 13 /\ fric.flow = 80
    /\ fric.reynolds_number < LaminarLimit
    /\ calculate_reynolds_number(90, 13) >= LaminarLimit
    /\ fric.pressure_loss > 0

(***************************************************************************)
(* Inputs of the agronomic model                                           *)
(***************************************************************************)
Tomato == [name |-> "Tomato", spacing_min |-> 30, spacing_optimal |-> 45,
           water_need |-> "medium", sun_exposure |-> "full_sun",
           incompatible_plants |-> {"Potato"}]
Potato == [name |-> "Potato", spacing_min |-> 25, spacing_optimal |-> 40,
           water_need |-> "high", sun_exposure |-> "partial_sun",
           incompatible_plants |-> {}]
Fern   == [name |-> "Fern", spacing_min |-> 40, spacing_optimal |-> 45,
           water_need |-> "low", sun_exposure |-> "shade",
           incompatible_plants |-> {}]

PlantChoices == {Tomato, Potato, Fern}

\* soil_quality in [0, 1], tenths
SoilQualities == {0, 3, 7, 8, 10}

MaxCacheEntries == 3
MaxPlacements == 3
MaxGardenZones == 2

Positions == {<<0, 0>>, <<25, 0>>, <<50, 50>>, <<150, 0>>, <<300, 0>>}

PlacementChoices ==
    { [plant_specs |-> ps, x |-> pos[1], y |-> pos[2]] : ps \in PlantChoices, pos \in Positions }

\* a 100 m2 zone around the origin and a 1 m2 zone around the origin
GardenZoneChoices ==
    { [area |-> 1000000, coordinates |-> <<0, 0>>],
      [area |-> 10000,   coordinates |-> <<0, 0>>] }

\* a bed of plants around the origin: high-water plants on a star whose arms are more
\* than 1 m apart from each other, and a low-water plant at its centre
MaxBedPlacements == 4

BedChoices ==
    { [plant_specs |-> Potato, x |-> pos[1], y |-> pos[2]] :
          pos \in {<<0, 0>>, <<90, 0>>, <<0, 90>>, <<-90, 0>>} }
    \cup { [plant_specs |-> Fern, x |-> 0, y |-> 0] }

\* a call of detect_conflicts
DetectCall(call) ==
    \/ \E ps \in SeqsUpTo(PlacementChoices, MaxPlacements),
          zs \in SeqsUpTo(GardenZoneChoices, MaxGardenZones) :
           call = [status |-> "called", placements |-> ps, garden_zones |-> zs]
    \/ \E ps \in [1..MaxBedPlacements -> BedChoices] :
           call = [status |-> "called", placements |-> ps,
                   garden_zones |-> <<[area |-> 1000000, coordinates |-> <<0, 0>>]>>]

\* AgronomicCalculator.calculate_optimal_spacing(plant_specs, soil_quality)
CalculateOptimalSpacing ==
    /\ Cardinality(cache) < MaxCacheEntries
    /\ \E ps \in PlantChoices, q \in SoilQualities :
          cache' = CacheAfter(cache, ps, q)
    /\ UNCHANGED <<det, hydVars, ga, clu, otherVars>>

SpacingInit == HydIdle /\ AgroIdle /\ GaIdle /\ CluIdle /\ OtherIdle

SpecSpacing == SpacingInit /\ [][CalculateOptimalSpacing]_vars

\* ConflictDetector.detect_conflicts(placements, garden_zones)
DetectConflicts ==
    /\ det.status = "called"
    /\ det' = detect_conflicts(det.placements, det.garden_zones) @@ Args(det)
    /\ cache' = CacheAfterPairs(cache, det.placements, PairsOf(Len(det.placements)))
    /\ UNCHANGED <<hydVars, ga, clu, otherVars>>

ConflictsInit == HydIdle /\ cache = {} /\ DetectCall(det) /\ GaIdle /\ CluIdle /\ OtherIdle

SpecConflicts == ConflictsInit /\ [][DetectConflicts]_vars

(***************************************************************************)
(* Properties of the agronomic calculator and the conflict detector        *)
(***************************************************************************)
\* C9 (as stated): for every plant and soil qualities q1 <= q2,
\* calculate_optimal_spacing(plant, q2) <= calculate_optimal_spacing(plant, q1).
C9_SpacingNonIncreasingInSoilQuality ==
    \A e1, e2 \in cache :
        (e1.plant = e2.plant /\ e1.soil_quality <= e2.soil_quality) => e2.value <= e1.value

RequiredSpacing(plant_specs) == calculate_optimal_spacing(plant_specs, 7) \div 100

FartherThan(d2, spacing) == d2 * 10000 > spacing * spacing

AllPairsApart(placements) ==
    \A i, j \in 1..Len(placements) :
        i < j => /\ FartherThan(Dist2(placements[i], placements[j]),
                                RequiredSpacing(placements[i].plant_specs))
                 /\ FartherThan(Dist2(placements[i], placements[j]),
                                RequiredSpacing(placements[j].plant_specs))

PairSet(entries) == {<<entries[k].plant1, entries[k].plant2>> : k \in 1..Len(entries)}

HighWaterWithin1m(placements, i) ==
    { j \in 1..Len(placements) :
        /\ j # i
        /\ placements[j].plant_specs.water_need = "high"
        /\ Dist2(placements[i], placements[j]) < 100 * 100 }

\* C17 (as stated): for each placement with more than two other high-water-need plants
\* within 1 m, whatever its own water need and its position in the list, resource_conflicts
\* holds a water_competition entry naming that plant and all of those neighbours.
C17_WaterCompetitionForEveryPlant ==
    det.status = "returned" =>
        \A i \in 1..Len(det.placements) :
            Cardinality(HighWaterWithin1m(det.placements, i)) > 2 =>
                \E c \in 1..Len(det.resource_conflicts) :
                    ({i} \cup HighWaterWithin1m(det.placements, i))
                        \subseteq {det.resource_conflicts[c][k] :
                                      k \in 1..Len(det.resource_conflicts[c])}

\* the orders in which the n placements of a list can be given: order[k] is the
\* placement that comes k-th
Orders(n) == {order \in [1..n -> 1..n] : \A i, j \in 1..n : order[i] = order[j] => i = j}

Reordered(placements, order) == [k \in 1..Len(placements) |-> placements[order[k]]]

\* the unordered plant pairs of spacing_violations, as placements of the original list
ViolationPairs(entries, order) ==
    {{order[entries[k].plant1], order[entries[k].plant2]} : k \in 1..Len(entries)}

\* the plant groups of resource_conflicts, as placements of the original list
ConflictGroups(conflicts, order) ==
    {{order[conflicts[c][k]] : k \in 1..Len(conflicts[c])} : c \in 1..Len(conflicts)}

NegInfinity == -2147483647

\* best_solution = None
NoSolution == <<0>>

FitnessScale == 10000

tournament_size == 3

RECURSIVE ISqrtBetween(_, _, _)
ISqrtBetween(n, lo, hi) ==
    IF lo >= hi THEN lo
    ELSE LET mid == (lo + hi + 1) \div 2
         IN  IF mid * mid <= n THEN ISqrtBetween(n, mid, hi)
             ELSE ISqrtBetween(n, lo, mid - 1)

\* math.sqrt, rounded down
ISqrt(n) == ISqrtBetween(n, 0, 46340)

RECURSIVE SumSeq(_)
SumSeq(s) == IF s = <<>> THEN 0 ELSE Head(s) + SumSeq(Tail(s))

\* "if distance < 1.0" (metres; d2 in cm^2)
WithinFitnessCompatibilityRange(d2) == d2 < 100 * 100

\* _calculate_fitness(individual, garden_zones, constraints)
calculate_fitness(individual, heap, garden_zones) ==
    IF individual = <<>> THEN NegInfinity
    ELSE
    LET ps  == [i \in 1..Len(individual) |-> heap[individual[i]]]
        prs == PairsOf(Len(ps))
        spacing_penalty ==
            SumSeq([k \in 1..Len(prs) |->
                LET d2 == Dist2(ps[prs[k][1]], ps[prs[k][2]])
                    ms == MinSpacing(ps[prs[k][1]].plant_specs)
                IN  IF SpacingViolated(d2, ms) THEN (ms - ISqrt(d2 * 10000)) * 10 ELSE 0])
        compatibility_penalty ==
            SumSeq([k \in 1..Len(prs) |->
                LET p1 == ps[prs[k][1]]
                    p2 == ps[prs[k][2]]
                IN  IF Incompatible(p1.plant_specs, p2.plant_specs)
                       /\ WithinFitnessCompatibilityRange(Dist2(p1, p2))
                    THEN 50 * FitnessScale ELSE 0])
        zone_penalty ==
            SumSeq([i \in 1..Len(ps) |->
                IF \E z \in 1..Len(garden_zones) : is_in_zone(ps[i], garden_zones[z])
                THEN 0 ELSE 100 * FitnessScale])
        total_penalty == spacing_penalty + compatibility_penalty + zone_penalty
        base_fitness == Len(individual) * 10 * FitnessScale
    IN  base_fitness - total_penalty

Min(a, b) == IF a < b THEN a ELSE b

RECURSIVE MaxOfSeq(_)
MaxOfSeq(s) ==
    IF Len(s) = 1 THEN s[1] ELSE Max(s[1], MaxOfSeq(Tail(s)))

\* _tournament_selection: the sampled index whose fitness is the first maximum
tournament_winner(sample, fitness_scores) ==
    LET tournament_fitness == [k \in 1..Len(sample) |-> fitness_scores[sample[k]]]
        first == CHOOSE k \in 1..Len(sample) :
                    /\ tournament_fitness[k] = MaxOfSeq(tournament_fitness)
                    /\ \A m \in 1..(k - 1) : tournament_fitness[m] # MaxOfSeq(tournament_fitness)
    IN  sample[first]

\* _crossover(parent1, parent2) at crossover_point (0-based slice index)
crossover(parent1, parent2, crossover_point) ==
    <<SubSeq(parent1, 1, crossover_point) \o SubSeq(parent2, crossover_point + 1, Len(parent2)),
      SubSeq(parent2, 1, crossover_point) \o SubSeq(parent1, crossover_point + 1, Len(parent1))>>

\* _mutate: the coordinate change of object ref when the slots in mutated of individual
\* each receive the adjustment jitter[slot]
Adjustment(individual, mutated, jitter, ref, axis) ==
    IF \E i \in mutated : individual[i] = ref
    THEN jitter[CHOOSE i \in mutated : individual[i] = ref][axis]
    ELSE 0

BetterFitness_mutant(fitness, best_fitness) == fitness < best_fitness

\* "if fitness > best_fitness"
BetterFitness(fitness, best_fitness) == fitness > best_fitness

(***************************************************************************)
(* One run of the genetic optimizer: inputs and steps                      *)
(***************************************************************************)
\* self.population_size, self.generations (50 and 100 in the constructor)
PopulationSize == 4
Generations == 2

\* the most placements _mutate adjusts during one run
MaxMutations == 1

GaPlantLists == {<<Tomato>>, <<Tomato, Potato>>, <<Fern, Potato>>}

\* a 1 m2 zone around the origin (radius about 56 cm)
GaZoneLists == {<<>>, <<[area |-> 10000, coordinates |-> <<0, 0>>]>>}

\* the points _create_random_placement draws for the plants of one individual
LayoutChoices(n) == {[i \in 1..n |-> <<0, 0>>], [i \in 1..n |-> <<40 * (i - 1), 0>>]}

\* the index samples the two random.sample(range(n), 3) calls of one pair draw (1-based)
TournamentSamples(n) ==
    {<<<<1, 2, 3>>, <<1, 2, 3>>>>, <<<<1, 2, 3>>, <<n, n - 1, n - 2>>>>}

\* the adjustments (random.uniform(-0.5, 0.5), random.uniform(-0.5, 0.5)) drawn, cm
JitterChoices == {<<40, 0>>}

GaCalls ==
    { [status |-> "called", plants |-> pl, garden_zones |-> zs] :
      pl \in GaPlantLists, zs \in GaZoneLists }

\* reference of the placement of plant i in the k-th initial individual
Ref(k, i, n) == (k - 1) * n + i

\* _initialize_population, then lines 283-284
InitializePopulation ==
    /\ ga.status = "called"
    /\ LET n == Len(ga.plants)
       IN  IF ga.garden_zones = <<>>
           THEN \* random.choice([]) raises IndexError
                ga' = [status |-> "raised"] @@ ga
           ELSE \E layout \in [1..PopulationSize -> LayoutChoices(n)] :
                  ga' = [status |-> "evaluating",
                         heap |-> [r \in 1..(PopulationSize * n) |->
                                     LET k == ((r - 1) \div n) + 1
                                         i == ((r - 1) % n) + 1
                                     IN  [plant_specs |-> ga.plants[i],
                                          x |-> layout[k][i][1], y |-> layout[k][i][2]]],
                         population |-> [k \in 1..PopulationSize |->
                                           [i \in 1..n |-> Ref(k, i, n)]],
                         fitness_scores |-> <<>>,
                         new_population |-> <<>>,
                         best_fitness |-> NegInfinity,
                         best_solution |-> NoSolution,
                         generation |-> 0,
                         evaluated |-> {},
                         mutations |-> 0] @@ ga
    /\ UNCHANGED <<hydVars, agroVars, clu, otherVars>>

\* one iteration of "for individual in population" (lines 289-295)
EvaluateFitness ==
    /\ ga.status = "evaluating"
    /\ LET individual == ga.population[Len(ga.fitness_scores) + 1]
           fitness == calculate_fitness(individual, ga.heap, ga.garden_zones)
           better == BetterFitness(fitness, ga.best_fitness)
       IN  /\ ga' = [ga EXCEPT
                    !.fitness_scores = Append(@, fitness),
                    !.best_fitness = IF better THEN fitness ELSE @,
                    !.best_solution = IF better THEN individual ELSE @,
                    !.evaluated = @ \cup {fitness},
                    !.new_population = <<>>,
                    !.status = IF Len(ga.fitness_scores) + 1 = Len(ga.population)
                               THEN "breeding" ELSE "evaluating"]
           /\ cache' = CacheAfterPairs(cache, [i \in 1..Len(individual) |->
                                                 ga.heap[individual[i]]],
                                       PairsOf(Len(individual)))
    /\ UNCHANGED <<hydVars, det, clu, otherVars>>

AfterPair_mutant(g, heap, children, mutated) ==
    LET extended == g.new_population \o children
        last == Len(extended) = 2 * (PopulationSize \div 2)
        generation == IF last THEN g.generation + 1 ELSE g.generation
        converged == \A k \in 1..Len(g.fitness_scores) : g.fitness_scores[k] = g.best_fitness
    IN  [g EXCEPT
           !.heap = heap,
           !.mutations = @ + mutated,
           !.new_population = extended,
           !.population = IF last THEN SubSeq(extended, 1, Min(PopulationSize, Len(extended)))
                          ELSE @,
           !.fitness_scores = IF last THEN <<>> ELSE @,
           !.generation = generation,
           !.status = IF ~last THEN "breeding"
                      ELSE IF generation = Generations \/ converged THEN "returned"
                      ELSE "evaluating"]

\* the state after new_population.extend([child1, child2]): the next pair, or lines
\* 317-322 after the last pair of the generation
AfterPair(g, heap, children, mutated) ==
    LET extended == g.new_population \o children
        last == Len(extended) = 2 * (PopulationSize \div 2)
        generation == IF last THEN g.generation + 1 ELSE g.generation
    IN  [g EXCEPT
           !.heap = heap,
           !.mutations = @ + mutated,
           !.new_population = extended,
           !.population = IF last THEN SubSeq(extended, 1, Min(PopulationSize, Len(extended)))
                          ELSE @,
           !.fitness_scores = IF last THEN <<>> ELSE @,
           !.generation = generation,
           !.status = IF ~last THEN "breeding"
                      ELSE IF generation = Generations THEN "returned" ELSE "evaluating"]

\* one iteration of "for _ in range(self.population_size // 2)" (lines 299-315)
Breed ==
    /\ ga.status = "breeding"
    /\ LET n == Len(ga.population)
           len == Len(ga.plants)
       IN  IF n < tournament_size
           THEN \* random.sample raises ValueError
                ga' = [ga EXCEPT !.status = "raised"]
           ELSE \E s \in TournamentSamples(n), cross \in BOOLEAN :
                  LET parent1 == ga.population[tournament_winner(s[1], ga.fitness_scores)]
                      parent2 == ga.population[tournament_winner(s[2], ga.fitness_scores)]
                  IN  IF cross /\ len < 2
                      THEN \* random.randint(1, 0) raises ValueError
                           ga' = [ga EXCEPT !.status = "raised"]
                      ELSE \E point \in 1..Max(1, len - 1) :
                           \E m1, m2 \in SUBSET (1..len) :
                             /\ ~cross => point = 1
                             /\ Cardinality(m1) + Cardinality(m2) <= MaxMutations - ga.mutations
                             /\ \E j1 \in [m1 -> JitterChoices], j2 \in [m2 -> JitterChoices] :
                                  LET children == IF cross THEN crossover(parent1, parent2, point)
                                                  ELSE <<parent1, parent2>>
                                      heap == [r \in DOMAIN ga.heap |->
                                                 [ga.heap[r] EXCEPT
                                                    !.x = @ + Adjustment(children[1], m1, j1, r, 1)
                                                            + Adjustment(children[2], m2, j2, r, 1),
                                                    !.y = @ + Adjustment(children[1], m1, j1, r, 2)
                                                            + Adjustment(children[2], m2, j2, r, 2)]]
                                  IN  ga' = AfterPair(ga, heap, children,
                                                      Cardinality(m1) + Cardinality(m2))
    /\ UNCHANGED <<hydVars, agroVars, clu, otherVars>>

GeneticInit == HydIdle /\ AgroIdle /\ ga \in GaCalls /\ CluIdle /\ OtherIdle

SpecGenetic == GeneticInit /\ [][InitializePopulation \/ EvaluateFitness \/ Breed]_vars

(***************************************************************************)
(* Properties of the genetic optimizer                                     *)
(***************************************************************************)
GaStarted(g) == g.status \in {"evaluating", "breeding", "returned"}

\* C8: during one run the best-ever fitness never decreases, and after each fitness
\* evaluation it is >= every fitness value evaluated so far in the run.
C8_BestFitnessMonotone ==
    /\ [](GaStarted(ga) => \A f \in ga.evaluated : ga.best_fitness >= f)
    /\ [][(GaStarted(ga) /\ GaStarted(ga')) => ga'.best_fitness >= ga.best_fitness]_vars

\* C8 witness: in the second generation an individual was evaluated below the best-ever
\* fitness, after the best had risen above an earlier evaluation
C8_Witness ==
    /\ ga.status = "evaluating"
    /\ ga.generation = 1
    /\ ga.fitness_scores # <<>>
    /\ ga.fitness_scores[Len(ga.fitness_scores)] < ga.best_fitness
    /\ Cardinality(ga.evaluated) >= 3
    /\ \A f \in ga.evaluated : ga.best_fitness >= f

\* an individual holds one placement per input plant spec, the i-th for the i-th spec
FullAssignment(g, individual) ==
    /\ Len(individual) = Len(g.plants)
    /\ \A i \in 1..Len(individual) : g.heap[individual[i]].plant_specs = g.plants[i]

\* C11 (as stated): for a non-empty plant list (a single plant included) and at least one
\* garden zone, optimize_placement_genetic does not fail, every candidate of every
\* population holds one placement per plant spec in input order, and so does the solution
\* it returns.
C11_OnePlacementPerPlant ==
    (ga.status \notin {"idle", "called"} /\ ga.plants # <<>> /\ ga.garden_zones # <<>>) =>
        /\ ga.status # "raised"
        /\ \A k \in 1..Len(ga.population) : FullAssignment(ga, ga.population[k])
        /\ ga.status = "returned" => FullAssignment(ga, ga.best_solution)

\* C12 (as stated): every placement of the solution optimize_placement_genetic returns
\* lies inside at least one of the input garden zones.
C12_SolutionInsideZones ==
    ga.status = "returned" =>
        \A i \in 1..Len(ga.best_solution) :
            \E z \in 1..Len(ga.garden_zones) :
                is_in_zone(ga.heap[ga.best_solution[i]], ga.garden_zones[z])

\* C26 (as stated): the solution optimize_placement_genetic returns is the candidate as it
\* was when it achieved the tracked best-ever fitness: crossover and mutation never change
\* the coordinates of the recorded best solution, and its fitness evaluated at return
\* time is the tracked best fitness.
C26_BestSolutionFrozen ==
    /\ [](ga.status = "returned" =>
            calculate_fitness(ga.best_solution, ga.heap, ga.garden_zones) = ga.best_fitness)
    /\ [][(GaStarted(ga) /\ GaStarted(ga') /\ ga.best_solution # NoSolution
            /\ ga'.best_solution = ga.best_solution) =>
            \A i \in 1..Len(ga.best_solution) :
                ga'.heap[ga.best_solution[i]] = ga.heap[ga.best_solution[i]]]_vars

FitnessVectorComplete(g) == Len(g.fitness_scores) = Len(g.population)

\* the most loop iterations of one generation: one per individual, one per pair
StepsPerGeneration == PopulationSize + PopulationSize \div 2

\* an upper bound on the loop iterations a run still has to make
StepsLeft(g) ==
    (Generations - g.generation) * StepsPerGeneration - Len(g.fitness_scores)
        - (IF g.status = "breeding" THEN Len(g.new_population) \div 2 ELSE 0)

\* C22: a run of optimize_placement_genetic that does not raise ends, after exactly
\* `generations` generations and whether or not the fitness has converged, by returning
\* the tracked best candidate: each loop iteration uses up the bounded number of
\* iterations left; the population is replaced, and parents are selected, only once the
\* whole fitness vector of the generation is computed.
C22_GenerationCountTermination ==
    /\ [](GaStarted(ga) => (ga.status = "returned" <=> ga.generation = Generations))
    /\ [](GaStarted(ga) => StepsLeft(ga) >= 0)
    /\ [](ga.status = "breeding" => FitnessVectorComplete(ga))
    /\ [][(GaStarted(ga) /\ GaStarted(ga')) =>
            /\ StepsLeft(ga') < StepsLeft(ga)
            /\ (ga'.population # ga.population => FitnessVectorComplete(ga))
            /\ ga'.generation \in {ga.generation, ga.generation + 1}
            /\ (ga'.generation # ga.generation =>
                   ga.status = "breeding" /\ FitnessVectorComplete(ga))
            /\ (ga'.status = "returned" =>
                   /\ ga'.best_fitness = ga.best_fitness
                   /\ ga'.best_solution = ga.best_solution)]_vars

\* C22 witness: a run whose fitness was the same for every individual from the first
\* evaluation on still went through every generation before it returned
C22_Witness ==
    /\ ga.status = "returned"
    /\ ga.generation = Generations
    /\ Cardinality(ga.evaluated) = 1
    /\ ga.best_solution # NoSolution

(***************************************************************************)
(* ClusteringEngine: equipment catalogue and optimize_equipment_selection  *)
(* Areas in 1/100 m2, spacing in cm, flow in L/h, cost in cents, coverage  *)
(* efficiency in 1e-4.                                                     *)
(***************************************************************************)
\* list(EquipmentType)
EquipmentTypes == <<"drip", "sprinkler", "microjet", "rotor", "spray">>

equipment_database ==
    [drip |->
        <<[name |-> "Drip Emitter 2LPH", flow_rate_lph |-> 2, spacing_m |-> 30, cost_per_unit |-> 50],
          [name |-> "Drip Emitter 4LPH", flow_rate_lph |-> 4, spacing_m |-> 40, cost_per_unit |-> 60],
          [name |-> "Drip Emitter 8LPH", flow_rate_lph |-> 8, spacing_m |-> 50, cost_per_unit |-> 80]>>,
     sprinkler |->
        <<[name |-> "Spray Head 360", flow_rate_lph |-> 50, spacing_m |-> 300, cost_per_unit |-> 250],
          [name |-> "Spray Head 180", flow_rate_lph |-> 30, spacing_m |-> 250, cost_per_unit |-> 200],
          [name |-> "Spray Head 90", flow_rate_lph |-> 20, spacing_m |-> 200, cost_per_unit |-> 180]>>,
     microjet |->
        <<[name |-> "Microjet 15LPH", flow_rate_lph |-> 15, spacing_m |-> 150, cost_per_unit |-> 120],
          [name |-> "Microjet 25LPH", flow_rate_lph |-> 25, spacing_m |-> 200, cost_per_unit |-> 150],
          [name |-> "Microjet 40LPH", flow_rate_lph |-> 40, spacing_m |-> 250, cost_per_unit |-> 200]>>]

\* budget_constraint = None, preferred_equipment_type = None
NoBudget == -1
NoPreference == "none"

\* water_needs_mapping.get(water_needs.lower(), 1.0), tenths
WaterNeedsFactor(water_needs) ==
    CASE water_needs = "low" -> 7
      [] water_needs = "high" -> 13
      [] OTHER -> 10

\* equipment["spacing_m"] ** 2
CoveragePerUnit(equipment) == (equipment.spacing_m * equipment.spacing_m) \div 100

\* math.ceil(zone_area_m2 / coverage_per_unit)
UnitsNeeded(zone_area_m2, equipment) ==
    (zone_area_m2 + CoveragePerUnit(equipment) - 1) \div CoveragePerUnit(equipment)

\* "if budget_constraint and total_cost > budget_constraint"
OverBudget(total_cost, budget_constraint) ==
    budget_constraint # NoBudget /\ budget_constraint # 0 /\ total_cost > budget_constraint

\* "if total_flow >= required_flow_lph * 0.8"
FlowSufficient(total_flow, zone_area_m2, water_needs) ==
    total_flow * 10000 >= zone_area_m2 * 2 * WaterNeedsFactor(water_needs) * 8

\* the (eq_type, equipment) pairs in the order of the two nested loops
Candidates(equipment_types) ==
    LET RECURSIVE Build(_)
        Build(t) ==
            IF t > Len(equipment_types) THEN <<>>
            ELSE IF equipment_types[t] \notin DOMAIN equipment_database THEN Build(t + 1)
            ELSE [k \in 1..Len(equipment_database[equipment_types[t]]) |->
                    equipment_database[equipment_types[t]][k]] \o Build(t + 1)
    IN  Build(1)

NoEquipment == [name |-> "None"]

\* the body of the loop over one catalogue entry (lines 284-303)
RECURSIVE SelectFrom(_, _, _, _, _)
SelectFrom(best, candidates, zone_area_m2, water_needs, budget_constraint) ==
    IF candidates = <<>> \/ best.raised THEN best
    ELSE
    LET equipment == Head(candidates)
        units_needed == UnitsNeeded(zone_area_m2, equipment)
        total_flow == units_needed * equipment.flow_rate_lph
        total_cost == units_needed * equipment.cost_per_unit
        coverage_efficiency ==
            Min(10000, (units_needed * CoveragePerUnit(equipment) * 10000) \div zone_area_m2)
        next ==
            IF OverBudget(total_cost, budget_constraint) THEN best
            ELSE IF ~FlowSufficient(total_flow, zone_area_m2, water_needs) THEN best
            ELSE IF zone_area_m2 = 0 THEN [best EXCEPT !.raised = TRUE]
            ELSE IF total_cost < best.cost
                    \/ (total_cost = best.cost /\ coverage_efficiency > best.coverage)
                 THEN [equipment |-> equipment, cost |-> total_cost,
                       coverage |-> coverage_efficiency, raised |-> FALSE]
            ELSE best
    IN  SelectFrom(next, Tail(candidates), zone_area_m2, water_needs, budget_constraint)

optimize_equipment_selection(zone_area_m2, water_needs, budget_constraint, preferred_type) ==
    LET equipment_types == IF preferred_type # NoPreference
                           THEN <<preferred_type>> ELSE EquipmentTypes
        best == SelectFrom([equipment |-> NoEquipment, cost |-> Infinity, coverage |-> 0,
                            raised |-> FALSE],
                           Candidates(equipment_types), zone_area_m2, water_needs,
                           budget_constraint)
    IN  IF best.raised THEN [status |-> "raised", error |-> "ZeroDivisionError"]
        ELSE IF best.equipment = NoEquipment THEN [status |-> "raised", error |-> "ValueError"]
        ELSE [status |-> "returned",
              name |-> best.equipment.name,
              equipment_type |-> equipment_types[Len(equipment_types)],
              quantity_needed |-> UnitsNeeded(zone_area_m2, best.equipment),
              total_cost |-> best.cost,
              coverage_efficiency |-> best.coverage]

(***************************************************************************)
(* One call of optimize_equipment_selection                                *)
(***************************************************************************)
\* zone areas of 0, 1, 2.5 and 25 m2
EquipmentAreas == {0, 100, 250, 2500}

\* "active" is the zone status the planner passes as water_needs
EquipmentWaterNeeds == {"low", "moderate", "high", "active"}

\* budgets in cents: none, 0, 1 dollar, 5 dollars, 1000 dollars
EquipmentBudgets == {NoBudget, 0, 100, 500, 100000}

EquipmentPreferences == {NoPreference, "drip", "sprinkler", "microjet", "rotor"}

EquipmentCalls ==
    [status : {"called"}, zone_area_m2 : EquipmentAreas, water_needs : EquipmentWaterNeeds,
     budget_constraint : EquipmentBudgets, preferred_type : EquipmentPreferences]

OptimizeEquipmentSelection ==
    /\ eq.status = "called"
    /\ eq' = optimize_equipment_selection(eq.zone_area_m2, eq.water_needs,
                                          eq.budget_constraint, eq.preferred_type)
             @@ Args(eq)
    /\ UNCHANGED <<hydVars, agroVars, ga, clu, fric, plan>>

EquipmentInit ==
    HydIdle /\ AgroIdle /\ GaIdle /\ CluIdle /\ fric = Idle /\ eq \in EquipmentCalls /\ plan = Idle

SpecEquipment == EquipmentInit /\ [][OptimizeEquipmentSelection]_vars

(***************************************************************************)
(* Properties of optimize_equipment_selection                              *)
(***************************************************************************)
\* the catalogue entries the call considers: those of the preferred type, or all of them
ConsideredEntries(call) ==
    LET c == Candidates(IF call.preferred_type # NoPreference
                        THEN <<call.preferred_type>> ELSE EquipmentTypes)
    IN  {c[k] : k \in 1..Len(c)}

EntryCost(call, e) == UnitsNeeded(call.zone_area_m2, e) * e.cost_per_unit

EntryFlow(call, e) == UnitsNeeded(call.zone_area_m2, e) * e.flow_rate_lph

\* min(1, units * coverage / area), 1e-4
EntryCoverage(call, e) ==
    Min(10000, (UnitsNeeded(call.zone_area_m2, e) * CoveragePerUnit(e) * 10000)
                   \div call.zone_area_m2)

\* cost <= budget (if any) and total flow >= 0.8 x area x 2.0 x water factor
Acceptable(call, e) ==
    /\ call.budget_constraint # NoBudget => EntryCost(call, e) <= call.budget_constraint
    /\ EntryFlow(call, e) * 10000
          >= call.zone_area_m2 * 2 * WaterNeedsFactor(call.water_needs) * 8

C15_MinimumCostAmongAcceptable ==
    eq.status # "called" =>
        LET acceptable == {e \in ConsideredEntries(eq) : Acceptable(eq, e)}
        IN  /\ (eq.status = "raised" /\ eq.error = "ValueError") <=> acceptable = {}
            /\ acceptable # {} =>
                  /\ eq.status = "returned"
                  /\ \E e \in acceptable : e.name = eq.name
                  /\ \A e \in acceptable :
                        /\ EntryCost(eq, e) >= eq.total_cost
                        /\ EntryCost(eq, e) = eq.total_cost
                              => EntryCoverage(eq, e) <= eq.coverage_efficiency

InitialBestScore == -10

\* best_clusters = None
NoLabels == <<-1>>

\* operating_pressure_bar = 1.5, microbar
DefaultOperatingPressure == 1500000

\* Python's floor division for a non-zero divisor
FloorDiv(a, b) == IF b > 0 THEN a \div b ELSE (0 - a) \div (0 - b)

\* create_feature_matrix: the row of one plant (y and crop_coefficient are equal for all)
Feature(plant) == <<plant.x, plant.water_needs, plant.area_m2>>

DistinctFeatures(plants) == {Feature(plants[i]) : i \in 1..Len(plants)}

\* np.unique(cluster_labels, return_counts=True): the count of each label in use
LabelCounts(labels) ==
    [l \in {labels[i] : i \in 1..Len(labels)} |->
        Cardinality({i \in 1..Len(labels) : labels[i] = l})]

CountsReachMinimum_mutant(labels, min_plants_per_zone) == TRUE

\* "if np.all(counts >= min_plants_per_zone)"
CountsReachMinimum(labels, min_plants_per_zone) ==
    \A l \in DOMAIN LabelCounts(labels) : LabelCounts(labels)[l] >= min_plants_per_zone

\* "max_clusters = min(max_zones, len(plants) // min_plants_per_zone)", clamped to 1
MaxClusters(n, max_zones, min_plants_per_zone) ==
    Max(1, Min(max_zones, FloorDiv(n, min_plants_per_zone)))

\* the plants of label c, in input order
Members(labels, c) == SelectSeq([i \in 1..Len(labels) |-> i], LAMBDA i : labels[i] = c)

SingleCluster_mutant(n) == <<[i \in 1..(n - 1) |-> i]>>

\* "return [plants], [np.array([0, 0])]"
SingleCluster(n) == <<[i \in 1..n |-> i]>>

\* lines 181-186
GroupByLabel(labels, n_centers) == [c \in 1..n_centers |-> Members(labels, c - 1)]

\* water_needs_numeric
WaterNeedsNumeric(water_needs) ==
    CASE water_needs = "low" -> 1
      [] water_needs = "high" -> 3
      [] OTHER -> 2

\* calculate_zone_properties(plants, cluster_center) for a non-empty cluster
calculate_zone_properties(plants, cluster) ==
    LET total_area == SumSeq([k \in 1..Len(cluster) |-> plants[cluster[k]].area_m2])
        water_sum == SumSeq([k \in 1..Len(cluster) |->
                                WaterNeedsNumeric(plants[cluster[k]].water_needs)])
        water_needs_str == IF 2 * water_sum < 3 * Len(cluster) THEN "low"
                           ELSE IF 2 * water_sum > 5 * Len(cluster) THEN "high"
                           ELSE "moderate"
    IN  [total_area_m2 |-> total_area,
         water_needs |-> water_needs_str,
         required_flow_lph |-> total_area * 2 * WaterNeedsFactor(water_needs_str),
         operating_pressure_bar |-> DefaultOperatingPressure,
         plant_ids |-> cluster]

\* the loop of perform_clustering over zip(clusters, centers), from cluster i on
RECURSIVE CreateZonesFrom(_, _, _)
CreateZonesFrom(plants, clusters, i) ==
    IF i > Len(clusters) THEN <<>>
    ELSE IF clusters[i] = <<>> THEN CreateZonesFrom(plants, clusters, i + 1)
    ELSE LET zone_props == calculate_zone_properties(plants, clusters[i])
             equipment_result == optimize_equipment_selection(zone_props.total_area_m2,
                                     zone_props.water_needs, NoBudget, NoPreference)
         IN  IF equipment_result.status = "raised"
             THEN CreateZonesFrom(plants, clusters, i + 1)
             ELSE <<[name |-> i, estimated_cost |-> equipment_result.total_cost] @@ zone_props>>
                  \o CreateZonesFrom(plants, clusters, i + 1)

(***************************************************************************)
(* One call of kmeans_clustering or perform_clustering: inputs and steps   *)
(***************************************************************************)
MaxClusterPlants == 4
MaxZoneLimit == 3
MaxMinPlants == 2

\* the distinct plants of the input (x in cm, area in 1/100 m2)
ClusterPlantChoices ==
    { [x |-> 0,   water_needs |-> "low",      area_m2 |-> 100],
      [x |-> 300, water_needs |-> "high",     area_m2 |-> 250],
      [x |-> 900, water_needs |-> "moderate", area_m2 |-> 0] }

\* the values silhouette_score returns for more than one cluster, tenths
ScoreChoices == {-5, 3, 8}

\* a call of kmeans_clustering or perform_clustering; nan: some feature is not a number
ClusteringCall(call) ==
    \E e \in {"kmeans_clustering", "perform_clustering"},
       ps \in SeqsUpTo(ClusterPlantChoices, MaxClusterPlants),
       mz \in 0..MaxZoneLimit, mp \in (-1)..MaxMinPlants,
       nan \in BOOLEAN :
        call = [status |-> "called", entry |-> e, plants |-> ps, max_zones |-> mz,
                min_plants_per_zone |-> mp, nan |-> nan]

\* the labellings fit_predict may yield for n_clusters = k, labels numbered in the order
\* in which they first occur in the input
Labellings(plants, k) ==
    LET features == DistinctFeatures(plants)
        used == Min(k, Cardinality(features))
        First(labels, l) == CHOOSE i \in 1..Len(plants) :
                               labels[i] = l /\ \A j \in 1..(i - 1) : labels[j] # l
    IN  { labels \in { [i \in 1..Len(plants) |-> lab[Feature(plants[i])]] :
                       lab \in [features -> 0..(used - 1)] } :
            /\ {labels[i] : i \in 1..Len(plants)} = 0..(used - 1)
            /\ \A l \in 1..(used - 1) : First(labels, l - 1) < First(labels, l) }

\* the fields of a kmeans_clustering result
KMeansResult(clusters, n_centers, path) ==
    [status |-> "clustered", clusters |-> clusters, n_centers |-> n_centers, path |-> path]

\* perform_clustering lines 396-404, then kmeans_clustering lines 137-152
StartClustering ==
    /\ clu.status = "called"
    /\ LET n == Len(clu.plants)
       IN  IF clu.entry = "perform_clustering" /\ n = 0
           THEN clu' = [status |-> "returned", zones |-> <<>>, n_centers |-> 0,
                        clusters |-> <<>>, path |-> "no_plants",
                        total_cost |-> 0, efficiency_score |-> 0] @@ clu
           ELSE IF n < clu.min_plants_per_zone
           THEN clu' = KMeansResult(SingleCluster(n), 1, "too_few_plants") @@ clu
           ELSE IF clu.min_plants_per_zone = 0
           THEN \* len(plants) // 0 raises ZeroDivisionError
                clu' = [status |-> "raised"] @@ clu
           ELSE clu' = [status |-> "searching",
                        max_clusters |-> MaxClusters(n, clu.max_zones, clu.min_plants_per_zone),
                        n_clusters |-> 1,
                        best_score |-> InitialBestScore,
                        best_clusters |-> NoLabels,
                        best_centers |-> 0,
                        full_score |-> 0,
                        tried |-> <<>>] @@ clu
    /\ UNCHANGED <<hydVars, agroVars, ga, otherVars>>

BetterScore_mutant(score, best_score) == TRUE

\* "if score > best_score"
BetterScore(score, best_score) == score > best_score

\* the state after one candidate count (lines 168-175)
AfterCandidate(c, outcome, labels, score) ==
    LET better == outcome = "scored" /\ BetterScore(score, c.best_score)
    IN  [c EXCEPT
           !.n_clusters = @ + 1,
           !.best_score = IF better THEN score ELSE @,
           !.best_clusters = IF better THEN labels ELSE @,
           !.best_centers = IF better THEN c.n_clusters ELSE @,
           !.full_score = IF outcome = "scored"
                             /\ c.n_clusters = Cardinality(DistinctFeatures(c.plants))
                          THEN score ELSE @,
           !.tried = Append(@, [n_clusters |-> c.n_clusters, outcome |-> outcome,
                                labels |-> labels, score |-> score])]

\* one iteration of "for n_clusters in range(1, max_clusters + 1)" (lines 154-175)
TryClusterCount ==
    /\ clu.status = "searching"
    /\ clu.n_clusters <= clu.max_clusters
    /\ LET n == Len(clu.plants)
           k == clu.n_clusters
           d == Cardinality(DistinctFeatures(clu.plants))
       IN  IF clu.nan \/ k > n
           THEN \* KMeans raises ValueError
                clu' = AfterCandidate(clu, "exception", NoLabels, 0)
           ELSE \E labels \in Labellings(clu.plants, k) :
                  IF ~CountsReachMinimum(labels, clu.min_plants_per_zone)
                  THEN clu' = AfterCandidate(clu, "rejected", labels, 0)
                  ELSE IF k = 1
                  THEN clu' = AfterCandidate(clu, "scored", labels, 0)
                  ELSE IF Min(k, d) = 1 \/ Min(k, d) = n
                  THEN \* silhouette_score raises ValueError
                       clu' = AfterCandidate(clu, "exception", labels, 0)
                  ELSE IF k > d
                  THEN clu' = AfterCandidate(clu, "scored", labels, clu.full_score)
                  ELSE \E score \in ScoreChoices :
                         clu' = AfterCandidate(clu, "scored", labels, score)
    /\ UNCHANGED <<hydVars, agroVars, ga, otherVars>>

\* the end of kmeans_clustering (lines 177-186)
GroupClusters ==
    /\ clu.status = "searching"
    /\ clu.n_clusters > clu.max_clusters
    /\ clu' = IF clu.best_clusters = NoLabels
              THEN KMeansResult(SingleCluster(Len(clu.plants)), 1, "nothing_qualified") @@ clu
              ELSE KMeansResult(GroupByLabel(clu.best_clusters, clu.best_centers),
                                clu.best_centers, "grouped") @@ clu
    /\ UNCHANGED <<hydVars, agroVars, ga, otherVars>>

\* the rest of perform_clustering (lines 413-467)
CreateZones ==
    /\ clu.status = "clustered"
    /\ clu.entry = "perform_clustering"
    /\ LET zones == CreateZonesFrom(clu.plants, clu.clusters, 1)
           total_area == SumSeq([z \in 1..Len(zones) |-> zones[z].total_area_m2])
       IN  clu' = [status |-> "returned",
                   zones |-> zones,
                   total_cost |-> SumSeq([z \in 1..Len(zones) |-> zones[z].estimated_cost]),
                   efficiency_score |-> IF zones # <<>>
                                        THEN Min(10000, (total_area * 10) \div Len(zones))
                                        ELSE 0] @@ clu
    /\ UNCHANGED <<hydVars, agroVars, ga, otherVars>>

ClusteringInit == HydIdle /\ AgroIdle /\ GaIdle /\ ClusteringCall(clu) /\ OtherIdle

SpecClustering ==
    ClusteringInit /\ [][StartClustering \/ TryClusterCount \/ GroupClusters \/ CreateZones]_vars

(***************************************************************************)
(* Properties of the clustering engine                                     *)
(***************************************************************************)
KMeansReturned(c) == c.status \in {"clustered", "returned"} /\ c.path # "no_plants"

\* the single-cluster fallback: fewer plants than the minimum, no candidate count in
\* 1..min(max_zones, n // min_plants_per_zone), or no candidate that qualified
SingleClusterFallback(c) ==
    \/ c.path \in {"too_few_plants", "nothing_qualified"}
    \/ Min(c.max_zones, FloorDiv(Len(c.plants), c.min_plants_per_zone)) < 1

\* C5: for every plant list, max_zones and min_plants_per_zone, unless the single-cluster
\* fallback is taken, kmeans_clustering returns at most max_zones clusters, each of at
\* least min_plants_per_zone plants, and so do the zones perform_clustering builds.
C5_ClusterCountAndSizeBounds ==
    /\ (KMeansReturned(clu) /\ ~SingleClusterFallback(clu)) =>
          /\ Len(clu.clusters) <= clu.max_zones
          /\ \A i \in 1..Len(clu.clusters) : Len(clu.clusters[i]) >= clu.min_plants_per_zone
    /\ (clu.status = "returned" /\ clu.entry = "perform_clustering"
          /\ (clu.path = "no_plants" \/ ~SingleClusterFallback(clu))) =>
          /\ Len(clu.zones) <= clu.max_zones
          /\ \A z \in 1..Len(clu.zones) :
                Len(clu.zones[z].plant_ids) >= clu.min_plants_per_zone

\* C5 witness: perform_clustering with four plants of three kinds, a minimum of two plants
\* per zone and more kinds than max_zones returns two zones of two plants each
C5_Witness ==
    /\ clu.status = "returned"
    /\ clu.entry = "perform_clustering"
    /\ clu.path = "grouped"
    /\ Len(clu.plants) = 4
    /\ Cardinality(DistinctFeatures(clu.plants)) = 3
    /\ clu.min_plants_per_zone = 2
    /\ clu.max_zones = 2
    /\ Len(clu.clusters) = 2
    /\ Len(clu.zones) = 2

\* the candidate counts the search loop went through without keeping any of them
NothingQualified(c) ==
    /\ c.path # "too_few_plants"
    /\ \A t \in 1..Len(c.tried) : c.tried[t].outcome # "scored"

\* C21: when the input has fewer plants than min_plants_per_zone, or no candidate count
\* yields clusters that all reach the minimum, kmeans_clustering does not raise and returns
\* exactly one cluster holding every input plant; it raises only for a minimum of 0, where
\* neither case applies.
C21_SingleClusterFallback ==
    /\ (Len(clu.plants) < clu.min_plants_per_zone) => clu.status # "raised"
    /\ clu.status = "raised" => clu.min_plants_per_zone = 0
    /\ (KMeansReturned(clu)
          /\ (Len(clu.plants) < clu.min_plants_per_zone \/ SingleClusterFallback(clu)
                \/ NothingQualified(clu))) =>
          /\ Len(clu.clusters) = 1
          /\ clu.clusters[1] = [i \in 1..Len(clu.plants) |-> i]

\* C21 witness: three plants, two candidate counts that both fail, one cluster of three
C21_Witness ==
    /\ clu.status = "clustered"
    /\ clu.path = "nothing_qualified"
    /\ Len(clu.plants) = 3
    /\ Len(clu.tried) = 2
    /\ Len(clu.clusters) = 1

\* the candidate counts in 1..min(max_zones, n // min_plants_per_zone) whose clusters
\* all reached the minimum and received a score
ValidCandidates(c) ==
    { t \in 1..Len(c.tried) :
        /\ c.tried[t].outcome = "scored"
        /\ c.tried[t].n_clusters <= Min(c.max_zones,
                                        FloorDiv(Len(c.plants), c.min_plants_per_zone)) }

\* C23: when some candidate count in 1..min(max_zones, floor(n / min_plants_per_zone))
\* yields clusters that all reach the minimum, kmeans_clustering returns the clustering of
\* such a candidate whose silhouette score (0 for k = 1) is >= the score of every other one.
C23_BestSilhouetteCandidate ==
    (KMeansReturned(clu) /\ clu.path = "grouped" /\ ValidCandidates(clu) # {}) =>
        \E t \in ValidCandidates(clu) :
            /\ \A u \in ValidCandidates(clu) : clu.tried[t].score >= clu.tried[u].score
            /\ Len(clu.clusters) = clu.tried[t].n_clusters
            /\ \A i \in 1..Len(clu.plants) :
                  \A k \in 1..Len(clu.clusters) :
                     (\E m \in 1..Len(clu.clusters[k]) : clu.clusters[k][m] = i)
                        <=> clu.tried[t].labels[i] = k - 1

\* C23 witness: four plants, three candidate counts scored 0, 0.8 and 0.3; the two clusters
\* of the second candidate are returned
C23_Witness ==
    /\ clu.status = "clustered"
    /\ clu.path = "grouped"
    /\ Len(clu.plants) = 4
    /\ Len(clu.tried) = 3
    /\ \A t \in 1..3 : clu.tried[t].outcome = "scored"
    /\ clu.tried[2].score = 8
    /\ clu.tried[3].score = 3
    /\ Len(clu.clusters) = 2

\* the elements of a sequence
Range(seq) == {seq[i] : i \in 1..Len(seq)}

\* C24 (as stated): perform_clustering returns exactly one zone for each non-empty
\* K-means cluster, with plant_ids equal to that cluster's plants, so every input plant is
\* in the plant_ids of exactly one returned zone, and total_cost is the sum of the
\* returned zones' estimated costs.
C24_OneZonePerCluster ==
    (clu.status = "returned" /\ clu.entry = "perform_clustering") =>
        LET filled == {k \in 1..Len(clu.clusters) : clu.clusters[k] # <<>>}
        IN  /\ Len(clu.zones) = Cardinality(filled)
            /\ \A k \in filled :
                  \E z \in 1..Len(clu.zones) : clu.zones[z].plant_ids = clu.clusters[k]
            /\ \A i \in 1..Len(clu.plants) :
                  Cardinality({z \in 1..Len(clu.zones) :
                                 i \in Range(clu.zones[z].plant_ids)}) = 1
            /\ clu.total_cost = SumSeq([z \in 1..Len(clu.zones) |->
                                         clu.zones[z].estimated_cost])

(***************************************************************************)
(* IrrigationPlanner.design_complete_irrigation_system                     *)
(* The clustering step runs on clu (perform_clustering with                *)
(* min_plants_per_zone = 1); the rest of the call is one step on plan.     *)
(* Zone flows are kept in 1e-3 LPH by the clustering model and enter the   *)
(* hydraulic computations in whole LPH.  Total cost in cents.              *)
(***************************************************************************)
\* zone.required_flow_lph as the hydraulic engine reads it
ZoneFlowLph(zone) == zone.required_flow_lph \div 1000

\* the zones as calculate_network_hydraulics and validate_system_design read them
HydraulicZones(zones) ==
    [i \in 1..Len(zones) |-> [required_flow |-> ZoneFlowLph(zones[i]),
                              operating_pressure |-> zones[i].operating_pressure_bar]]

\* budget_constraint / len(zones) if budget_constraint else None
ZoneBudget(budget_constraint, n_zones) ==
    IF budget_constraint = NoBudget \/ budget_constraint = 0 THEN NoBudget
    ELSE budget_constraint \div n_zones

\* step 2: one optimize_equipment_selection per zone, water_needs = zone.status = "active"
SelectEquipment(zones, budget_constraint) ==
    [i \in 1..Len(zones) |->
        optimize_equipment_selection(zones[i].total_area_m2, "active",
                                     ZoneBudget(budget_constraint, Len(zones)), NoPreference)]

PlannedPipe(result, flow, length, start, end) ==
    [material |-> "pvc", diameter |-> result.diameter, length |-> length, flow |-> flow,
     start |-> start, end |-> end, total_cost |-> result.cost, pressure_loss |-> result.loss]

\* design_pipe_network: a 50 m main line for the total flow (max loss 0.3 bar) and a 20 m
\* lateral per zone (max loss 0.2 bar); a failing optimize_pipe_diameter propagates
design_pipe_network(zones) ==
    LET hz == HydraulicZones(zones)
        total_flow == SumFlows(hz)
        main_pipe == optimize_pipe_diameter(total_flow, 50, "pvc", 300000)
        lateral_pipe == [i \in 1..Len(zones) |->
                            optimize_pipe_diameter(hz[i].required_flow, 20, "pvc", 200000)]
    IN  IF main_pipe.status = "raised"
           \/ \E i \in 1..Len(zones) : lateral_pipe[i].status = "raised"
        THEN [status |-> "raised", pipes |-> <<>>]
        ELSE [status |-> "returned",
              pipes |-> <<PlannedPipe(main_pipe, total_flow, 50, <<0, 0>>, <<50, 0>>)>>
                        \o [i \in 1..Len(zones) |->
                               PlannedPipe(lateral_pipe[i], hz[i].required_flow, 20,
                                           <<50, 10 * (i - 1)>>, <<70, 10 * (i - 1)>>)]]

\* calculate_system_costs: equipment + pipes + 30% installation, in cents
calculate_system_costs(equipment_selections, pipe_network) ==
    LET equipment_cost == SumSeq([i \in 1..Len(equipment_selections) |->
                                     equipment_selections[i].total_cost])
        pipe_cost == 10 * SumSeq([i \in 1..Len(pipe_network) |-> pipe_network[i].total_cost])
        material_cost == equipment_cost + pipe_cost
        installation_cost == (material_cost * 3) \div 10
    IN  [equipment_cost |-> equipment_cost, pipe_cost |-> pipe_cost,
         installation_cost |-> installation_cost,
         total_cost |-> material_cost + installation_cost]

\* steps 2 to 6 of design_complete_irrigation_system on the zones of the clustering result
design_complete_irrigation_system(zones, source_pressure, source_flow, budget_constraint) ==
    LET equipment_selections == SelectEquipment(zones, budget_constraint)
        pipe_network == design_pipe_network(zones)
        hydraulic_result == calculate_network_hydraulics(HydraulicZones(zones),
                                pipe_network.pipes, source_pressure, source_flow)
        cost_result == calculate_system_costs(equipment_selections, pipe_network.pipes)
        validation_result == validate_system_design(HydraulicZones(zones), pipe_network.pipes,
                                                    source_pressure, source_flow)
        Failure(step) == [status |-> "raised", failed_step |-> step]
    IN  IF \E i \in 1..Len(zones) : equipment_selections[i].status = "raised"
        THEN Failure("equipment_selection")
        ELSE IF pipe_network.status = "raised" THEN Failure("pipe_network")
        ELSE IF hydraulic_result.status = "raised" THEN Failure("hydraulic_calculations")
        ELSE [status |-> "returned",
              zones |-> zones,
              equipment_selections |-> equipment_selections,
              pipe_network |-> pipe_network.pipes,
              is_valid |-> validation_result.is_valid,
              total_cost |-> cost_result.total_cost,
              is_system_viable |-> hydraulic_result.is_system_viable]

\* budgets in cents: none, 0, 2 dollars, 1000 dollars
PlannerBudgets == {NoBudget, 0, 200, 100000}

\* a call with the default source (2.5 bar, 1000 LPH)
PlannerCalls ==
    [status : {"called"}, source_pressure : {2500000}, source_flow : {1000},
     budget_constraint : PlannerBudgets]

DesignCompleteIrrigationSystem ==
    /\ plan.status = "called"
    /\ clu.status = "returned"
    /\ plan' = design_complete_irrigation_system(clu.zones, plan.source_pressure,
                                                 plan.source_flow, plan.budget_constraint)
               @@ Args(plan)
    /\ UNCHANGED <<hydVars, agroVars, ga, clu, fric, eq>>

PlannerInit ==
    /\ HydIdle /\ AgroIdle /\ GaIdle /\ fric = Idle /\ eq = Idle
    /\ ClusteringCall(clu)
    /\ clu.entry = "perform_clustering"
    /\ clu.min_plants_per_zone = 1
    /\ plan \in PlannerCalls

SpecPlanner ==
    PlannerInit /\ [][StartClustering \/ TryClusterCount \/ GroupClusters \/ CreateZones
                      \/ DesignCompleteIrrigationSystem]_vars

====
